---- MODULE Spec2Model ----
(***************************************************************************)
(* A model of Alpha2.0/autograd/tensor.py: the Tensor graph node, its      *)
(* operation constructors and the recursive backward traversal.            *)
(*                                                                         *)
(* Dense arrays (numpy.ndarray) are records [shape, at]: shape is the      *)
(* tuple of dimension sizes and at maps every index tuple of that shape    *)
(* to the element stored there.  Elements are integers: every array the    *)
(* model builds has integral entries, and numpy's float arithmetic is      *)
(* exact on them.                                                          *)
(***************************************************************************)
EXTENDS Integers, Sequences, FiniteSets, TLC

\* ------------------------------------------------------------------ bounds
\* Tensors a client program creates.
MaxTensors == 3
\* In-place combinator calls (+=, *=, -=) of a client program.
MaxInplace == 1
\* zero_grad() calls of a client program that change a grad.
MaxZeroGrad == 1
\* Top-level backward() calls of a client program that get to accumulate.
MaxBackward == 1
\* Calls of a client program in all (constructors, in-place combinators,
\* zero_grad, backward).
MaxCalls == 5
\* Rank and dimension size of the operand shapes of the reduction harness.
MaxRank == 2
MaxDim == 3

\* --------------------------------------------------------- numpy arrays
RECURSIVE Idx(_)
\* The index tuples of an array of shape s.
Idx(s) == IF s = <<>> THEN {<<>>}
          ELSE {<<k>> \o r : k \in 1..s[1], r \in Idx(Tail(s))}

\* np.array(v) / np.full(shape, v)
Full(s, v) == [shape |-> s, at |-> [i \in Idx(s) |-> v]]
Scalar(v) == Full(<<>>, v)
\* np.zeros_like(a), np.ones_like(a)
zeros_like(a) == Full(a.shape, 0)
ones_like(a) == Full(a.shape, 1)
\* a.ndim
ndim(a) == Len(a.shape)

Max(m, n) == IF m >= n THEN m ELSE n

\* shape s left-padded with 1s to rank n (numpy's broadcasting alignment)
Pad(s, n) == [k \in 1..n |-> IF k <= n - Len(s) THEN 1 ELSE s[k - (n - Len(s))]]

\* numpy's rule for when two shapes broadcast together
CanBroadcast(s1, s2) ==
    LET n == Max(Len(s1), Len(s2))
        p1 == Pad(s1, n)
        p2 == Pad(s2, n)
    IN  \A k \in 1..n : p1[k] = p2[k] \/ p1[k] = 1 \/ p2[k] = 1

\* the broadcast result shape
BShape(s1, s2) ==
    LET n == Max(Len(s1), Len(s2))
        p1 == Pad(s1, n)
        p2 == Pad(s2, n)
    IN  [k \in 1..n |-> IF p1[k] = 1 THEN p2[k] ELSE p1[k]]

\* the element of an operand of shape s that result index idx reads
Proj(idx, s) ==
    LET n == Len(idx)
        m == Len(s)
    IN  [k \in 1..m |-> IF s[k] = 1 THEN 1 ELSE idx[k + n - m]]

\* elementwise a + b with broadcasting
BAdd(a, b) ==
    LET rs == BShape(a.shape, b.shape)
    IN  [shape |-> rs,
         at |-> [i \in Idx(rs) |-> a.at[Proj(i, a.shape)] + b.at[Proj(i, b.shape)]]]

\* elementwise a - b with broadcasting
BSub(a, b) ==
    LET rs == BShape(a.shape, b.shape)
    IN  [shape |-> rs,
         at |-> [i \in Idx(rs) |-> a.at[Proj(i, a.shape)] - b.at[Proj(i, b.shape)]]]

\* elementwise a * b with broadcasting
BMul(a, b) ==
    LET rs == BShape(a.shape, b.shape)
    IN  [shape |-> rs,
         at |-> [i \in Idx(rs) |-> a.at[Proj(i, a.shape)] * b.at[Proj(i, b.shape)]]]

\* -a
ANeg(a) == [shape |-> a.shape, at |-> [i \in Idx(a.shape) |-> 0 - a.at[i]]]

RECURSIVE SumTo(_, _)
\* f[1] + ... + f[n]
SumTo(f, n) == IF n <= 0 THEN 0 ELSE f[n] + SumTo(f, n - 1)

\* a.sum(axis=0): the first axis is summed away
SumAxis0(a) ==
    LET rs == Tail(a.shape)
    IN  [shape |-> rs,
         at |-> [i \in Idx(rs) |-> SumTo([k \in 1..a.shape[1] |-> a.at[<<k>> \o i]], a.shape[1])]]

\* a.sum(axis=i-1, keepdims=True): axis i (1-based here) is summed and kept, size 1
SumAxisKeep(a, i) ==
    LET rs == [a.shape EXCEPT ![i] = 1]
    IN  [shape |-> rs,
         at |-> [j \in Idx(rs) |->
                    SumTo([k \in 1..a.shape[i] |-> a.at[[j EXCEPT ![i] = k]]], a.shape[i])]]

RECURSIVE SumAll(_)
\* a.sum(): every element, a 0-dimensional result
SumAll(a) == IF a.shape = <<>> THEN a ELSE SumAll(SumAxis0(a))

\* a.T
Transpose(a) ==
    IF ndim(a) < 2 THEN a
    ELSE LET rs == <<a.shape[2], a.shape[1]>>
         IN  [shape |-> rs, at |-> [i \in Idx(rs) |-> a.at[<<i[2], i[1]>>]]]

\* a @ b is defined (numpy raises ValueError otherwise); ranks 1 and 2 only
CanMatMul(a, b) ==
    /\ ndim(a) \in {1, 2}
    /\ ndim(b) \in {1, 2}
    /\ a.shape[ndim(a)] = b.shape[1]

\* a @ b: a rank-1 left operand is a row, a rank-1 right operand a column, and
\* the dimension added for it is removed from the result
MatMul(a, b) ==
    LET inner == b.shape[1]
        rs == (IF ndim(a) = 2 THEN <<a.shape[1]>> ELSE <<>>)
              \o (IF ndim(b) = 2 THEN <<b.shape[2]>> ELSE <<>>)
        ai(i, k) == IF ndim(a) = 2 THEN <<i[1], k>> ELSE <<k>>
        bi(i, k) == IF ndim(b) = 2 THEN <<k, i[Len(i)]>> ELSE <<k>>
    IN  [shape |-> rs,
         at |-> [i \in Idx(rs) |->
                    SumTo([k \in 1..inner |-> a.at[ai(i, k)] * b.at[bi(i, k)]], inner)]]

\* ------------------------------------------- broadcast gradient reduction
RECURSIVE SumAddedDims(_, _)
\* for _ in range(ndim_added): grad = grad.sum(axis=0)
SumAddedDims(grad, ndim_added) ==
    IF ndim_added <= 0 THEN grad
    ELSE SumAddedDims(SumAxis0(grad), ndim_added - 1)

RECURSIVE SumBroadcastDimsFrom(_, _, _)
SumBroadcastDimsFrom(grad, shape, i) ==
    IF i > Len(shape) THEN grad
    ELSE SumBroadcastDimsFrom(IF shape[i] = 1 THEN SumAxisKeep(grad, i) ELSE grad,
                              shape, i + 1)

\* mutant: the size-1 axes are summed away instead of kept (keepdims dropped)
SumBroadcastDimsNoKeep(grad, shape) ==
    IF \E i \in 1..Len(shape) : shape[i] = 1 THEN SumAxis0(grad) ELSE grad

\* for i, dim in enumerate(t.shape): if dim == 1: grad = grad.sum(axis=i, keepdims=True)
SumBroadcastDims(grad, shape) == SumBroadcastDimsFrom(grad, shape, 1)

\* numpy raises AxisError when a summed axis is not an axis of grad
ReduceOk(grad, data_ndim, shape) ==
    LET r == IF ndim(grad) > data_ndim THEN data_ndim ELSE ndim(grad)
    IN  \A i \in 1..Len(shape) : shape[i] = 1 => i <= r

\* the body shared by _add.grad_fn1/grad_fn2 and, after the product, by
\* _multiply's: data_ndim is t.data.ndim and shape is t.shape, both read when
\* the gradient function runs
ReduceGrad(grad, data_ndim, shape) ==
    SumBroadcastDims(SumAddedDims(grad, ndim(grad) - data_ndim), shape)


\* ---------------------------------------------------------------- Tensor
\* self.grad = None
NoneGrad == [present |-> FALSE]

\* The Tensor a grad field holds: Tensor(array) with requires_grad False, no
\* dependencies and no grad of its own; shape is fixed from the data it was
\* constructed with.
GradTensor(array) == [present |-> TRUE, data |-> array, shape |-> array.shape]

\* Tensor.zero_grad: self.grad = Tensor(np.zeros_like(self.data))
zero_grad(t) == [t EXCEPT !.grad = GradTensor(zeros_like(t.data))]

\* Tensor.__init__: data goes through the setter (grad = None), shape is read
\* from the data once, and a differentiable tensor gets a zero grad.
Tensor(data, requires_grad, depends_on) ==
    LET t == [data |-> data,
              requires_grad |-> requires_grad,
              depends_on |-> depends_on,
              shape |-> data.shape,
              grad |-> NoneGrad]
    IN  IF requires_grad THEN zero_grad(t) ELSE t

\* the data setter: the buffer is replaced and grad cleared; shape is not touched
SetData(t, value) == [t EXCEPT !.data = value, !.grad = NoneGrad]

\* the data setter run on a grad tensor (self.grad.data = ...): its buffer is
\* replaced, its own grad (already None) cleared, its shape not touched
SetGradData(g, value) == [g EXCEPT !.data = value]

\* Dependency(tensor, grad_fn): fn names the closure, t1 and t2 are the tensors
\* the closure refers to (it reads their data and shape when it is called)
Dependency(tensor, fn, t1, t2) ==
    [isDep |-> TRUE, tensor |-> tensor, fn |-> fn, t1 |-> t1, t2 |-> t2]

\* _slice stores a bare Dependency where a list of them is expected: iterating
\* it yields the tuple's two fields, the source tensor and the function
BareDependency(tensor) ==
    << [isDep |-> FALSE, tensor |-> tensor, fn |-> "field:tensor", t1 |-> tensor, t2 |-> tensor],
       [isDep |-> FALSE, tensor |-> tensor, fn |-> "field:grad_fn", t1 |-> tensor, t2 |-> tensor] >>

\* ------------------------------------------------- local gradient functions
\* _add.grad_fn1 / grad_fn2 (t is the operand the closure refers to)
add_grad_fn(grad, t) == ReduceGrad(grad, ndim(t.data), t.shape)

\* _multiply.grad_fn1 (both closures carry that name): the product with the
\* other operand's data, read from the tensor when the function runs
multiply_grad_fn(grad, t, other) == ReduceGrad(BMul(grad, other.data), ndim(t.data), t.shape)

\* _neg.grad_fn
neg_grad_fn(grad) == ANeg(grad)

\* _tensor_sum.grad_fn
sum_grad_fn(grad, t) == BMul(grad, ones_like(t.data))

\* _matmul.grad_fn1 / grad_fn2
matmul_grad_fn1(grad, t2) == MatMul(grad, Transpose(t2.data))
matmul_grad_fn2(grad, t1) == MatMul(Transpose(t1.data), grad)

\* dependency.grad_fn(grad.data) returns (numpy raises otherwise)
GradFnOk(h, dep, grad) ==
    CASE dep.fn = "add1" -> ReduceOk(grad, ndim(h[dep.t1].data), h[dep.t1].shape)
      [] dep.fn = "add2" -> ReduceOk(grad, ndim(h[dep.t2].data), h[dep.t2].shape)
      [] dep.fn = "mul1" -> /\ CanBroadcast(grad.shape, h[dep.t2].data.shape)
                            /\ ReduceOk(BMul(grad, h[dep.t2].data),
                                        ndim(h[dep.t1].data), h[dep.t1].shape)
      [] dep.fn = "mul2" -> /\ CanBroadcast(grad.shape, h[dep.t1].data.shape)
                            /\ ReduceOk(BMul(grad, h[dep.t1].data),
                                        ndim(h[dep.t2].data), h[dep.t2].shape)
      [] dep.fn = "neg" -> TRUE
      [] dep.fn = "sum" -> CanBroadcast(grad.shape, h[dep.t1].data.shape)
      [] dep.fn = "mm1" -> CanMatMul(grad, Transpose(h[dep.t2].data))
      [] dep.fn = "mm2" -> CanMatMul(Transpose(h[dep.t1].data), grad)

\* dependency.grad_fn(grad.data)
GradFn(h, dep, grad) ==
    CASE dep.fn = "add1" -> add_grad_fn(grad, h[dep.t1])
      [] dep.fn = "add2" -> add_grad_fn(grad, h[dep.t2])
      [] dep.fn = "mul1" -> multiply_grad_fn(grad, h[dep.t1], h[dep.t2])
      [] dep.fn = "mul2" -> multiply_grad_fn(grad, h[dep.t2], h[dep.t1])
      [] dep.fn = "neg" -> neg_grad_fn(grad)
      [] dep.fn = "sum" -> sum_grad_fn(grad, h[dep.t1])
      [] dep.fn = "mm1" -> matmul_grad_fn1(grad, h[dep.t2])
      [] dep.fn = "mm2" -> matmul_grad_fn2(grad, h[dep.t1])

\* ------------------------------------------------- operation constructors
\* Each takes the heap and operand ids and returns the new Tensor.
_tensor_sum(h, t) ==
    Tensor(SumAll(h[t].data), h[t].requires_grad,
           IF h[t].requires_grad THEN <<Dependency(t, "sum", t, t)>> ELSE <<>>)

_add(h, t1, t2) ==
    Tensor(BAdd(h[t1].data, h[t2].data),
           h[t1].requires_grad \/ h[t2].requires_grad,
           (IF h[t1].requires_grad THEN <<Dependency(t1, "add1", t1, t2)>> ELSE <<>>)
           \o (IF h[t2].requires_grad THEN <<Dependency(t2, "add2", t1, t2)>> ELSE <<>>))

_multiply(h, t1, t2) ==
    Tensor(BMul(h[t1].data, h[t2].data),
           h[t1].requires_grad \/ h[t2].requires_grad,
           (IF h[t1].requires_grad THEN <<Dependency(t1, "mul1", t1, t2)>> ELSE <<>>)
           \o (IF h[t2].requires_grad THEN <<Dependency(t2, "mul2", t1, t2)>> ELSE <<>>))

_neg(h, t) ==
    Tensor(ANeg(h[t].data), h[t].requires_grad,
           IF h[t].requires_grad THEN <<Dependency(t, "neg", t, t)>> ELSE <<>>)

_matmul(h, t1, t2) ==
    Tensor(MatMul(h[t1].data, h[t2].data),
           h[t1].requires_grad \/ h[t2].requires_grad,
           (IF h[t1].requires_grad THEN <<Dependency(t1, "mm1", t1, t2)>> ELSE <<>>)
           \o (IF h[t2].requires_grad THEN <<Dependency(t2, "mm2", t1, t2)>> ELSE <<>>))

\* The index expressions the model's clients use: t[0] and t[0:1].
SliceIdx == {"0", "0:1"}

\* t.data[idxs]: "0" selects the first entry along axis 0 and drops the axis,
\* "0:1" selects it and keeps the axis; a 0-dimensional array cannot be indexed
CanIndex(a, idxs) == ndim(a) >= 1 /\ a.shape[1] >= 1

TakeIndex(a, idxs) ==
    LET rs == IF idxs = "0" THEN Tail(a.shape) ELSE <<1>> \o Tail(a.shape)
    IN  [shape |-> rs,
         at |-> [i \in Idx(rs) |-> IF idxs = "0" THEN a.at[<<1>> \o i] ELSE a.at[i]]]

\* The closure grad_fn of _slice is never called: backward fails on the bare
\* Dependency before it reaches any grad_fn, so the model has no operator for it.
_slice(h, t, idxs) ==
    Tensor(TakeIndex(h[t].data, idxs), h[t].requires_grad,
           IF h[t].requires_grad THEN BareDependency(t) ELSE <<>>)


\* ------------------------------------------------------------- the state
VARIABLES
    heap,      \* the Tensor objects of the client program, in order of creation
    built,     \* history: how each tensor was made (operation, operands, their data then)
    stack,     \* the frames of the running backward recursion, outermost first
    outcome,   \* how the last backward call ended, and the source line that raised
    visits,    \* history: the tensors whose grad the current backward call accumulated, in order
    call,      \* history: the last top-level backward call (root, seed, heap before it)
    last,      \* history: the last attempt to accumulate (line 105) of the current call
    calls,     \* in-place, zero_grad and backward calls made so far
    rd         \* the gradient-reduction harness (specification SpecReduce)

vars == <<heap, built, stack, outcome, visits, call, last, calls, rd>>

\* The data a client constructs leaf tensors from: 2.0 and [[1., 2.]].
LeafData == {Scalar(2), [shape |-> <<1, 2>>, at |-> [i \in Idx(<<1, 2>>) |-> i[2]]]}
\* The right operands of the in-place combinators: 2.0 for each, and for +=
\* also [[1.], [1.]], which broadcasts the data to a larger shape.
InplaceOperands == {Scalar(2)}
BroadcastingOperands == {Full(<<2, 1>>, 1)}
\* The value every entry of an explicit seed gradient holds.
SeedValues == {2}

NoOutcome == [exc |-> "none", line |-> 0]
NoCall == [root |-> 0]
NoAttempt == [t |-> 0]
NoHarness == [phase |-> "off"]

Init ==
    /\ heap = <<>>
    /\ built = <<>>
    /\ stack = <<>>
    /\ outcome = NoOutcome
    /\ visits = <<>>
    /\ call = NoCall
    /\ last = NoAttempt
    /\ calls = [inplace |-> 0, zero_grad |-> 0, backward |-> 0, total |-> 0]
    /\ rd = NoHarness

Ids == 1..Len(heap)

\* No call runs inside another: the program is single-threaded, and a
\* backward call returns or raises before the client's next statement.
Idle == stack = <<>>

\* the client may make one more call
MayCall == Idle /\ calls.total < MaxCalls

\* What every call other than backward leaves of the backward history.
ForgetBackward ==
    /\ stack' = <<>>
    /\ outcome' = NoOutcome
    /\ visits' = <<>>
    /\ call' = NoCall
    /\ last' = NoAttempt

Made(op, a, b, idxs) ==
    [op |-> op, a |-> a, b |-> b, idxs |-> idxs,
     adata |-> IF a = 0 THEN Scalar(0) ELSE heap[a].data,
     bdata |-> IF b = 0 THEN Scalar(0) ELSE heap[b].data,
     after |-> calls.backward]

\* mutant: the constructor stores the first operand's data back through the
\* setter, which clears the operand's grad
CreateTouchingOperand(t, how) ==
    /\ MayCall
    /\ Len(heap) < MaxTensors
    /\ heap' = Append(IF how.a = 0 THEN heap
                      ELSE [heap EXCEPT ![how.a] = SetData(@, @.data)], t)
    /\ built' = Append(built, how)
    /\ calls' = [calls EXCEPT !.total = @ + 1]
    /\ ForgetBackward
    /\ UNCHANGED rd

\* a constructor call returning tensor t
Create(t, how) ==
    /\ MayCall
    /\ Len(heap) < MaxTensors
    /\ heap' = Append(heap, t)
    /\ built' = Append(built, how)
    /\ calls' = [calls EXCEPT !.total = @ + 1]
    /\ ForgetBackward
    /\ UNCHANGED rd

\* Tensor(data, requires_grad): a leaf
NewTensor(data, requires_grad) ==
    Create(Tensor(data, requires_grad, <<>>), Made("leaf", 0, 0, ""))

\* t1 + t2
Add(t1, t2) ==
    /\ CanBroadcast(heap[t1].data.shape, heap[t2].data.shape)
    /\ Create(_add(heap, t1, t2), Made("add", t1, t2, ""))

\* t1 * t2
Multiply(t1, t2) ==
    /\ CanBroadcast(heap[t1].data.shape, heap[t2].data.shape)
    /\ Create(_multiply(heap, t1, t2), Made("multiply", t1, t2, ""))

\* t1 @ t2
Matmul(t1, t2) ==
    /\ CanMatMul(heap[t1].data, heap[t2].data)
    /\ Create(_matmul(heap, t1, t2), Made("matmul", t1, t2, ""))

\* -t
Neg(t) == Create(_neg(heap, t), Made("neg", t, 0, ""))

\* t.sum()
Sum(t) == Create(_tensor_sum(heap, t), Made("sum", t, 0, ""))

\* t[idxs]
Slice(t, idxs) ==
    /\ CanIndex(heap[t].data, idxs)
    /\ Create(_slice(heap, t, idxs), Made("slice", t, 0, idxs))

\* t1 - t2, that is _sub: t1 + -t2 (two tensors are created)
Sub(t1, t2) ==
    LET n == _neg(heap, t2)
        h1 == Append(heap, n)
        m == Len(heap) + 1
    IN  /\ MayCall
        /\ Len(heap) + 2 <= MaxTensors
        /\ CanBroadcast(heap[t1].data.shape, n.data.shape)
        /\ heap' = Append(h1, _add(h1, t1, m))
        /\ built' = built \o << Made("neg", t2, 0, ""),
                                [Made("add", t1, t2, "") EXCEPT !.b = m, !.bdata = n.data] >>
        /\ calls' = [calls EXCEPT !.total = @ + 1]
        /\ ForgetBackward
        /\ UNCHANGED rd

\* an in-place combinator replacing t's data by value
Replace(t, value) ==
    /\ MayCall
    /\ calls.inplace < MaxInplace
    /\ heap' = [heap EXCEPT ![t] = SetData(@, value)]
    /\ calls' = [calls EXCEPT !.inplace = @ + 1, !.total = @ + 1]
    /\ ForgetBackward
    /\ UNCHANGED <<built, rd>>

\* t += other
IAdd(t, other) ==
    /\ CanBroadcast(heap[t].data.shape, other.shape)
    /\ Replace(t, BAdd(heap[t].data, other))

\* t *= other
IMul(t, other) ==
    /\ CanBroadcast(heap[t].data.shape, other.shape)
    /\ Replace(t, BMul(heap[t].data, other))

\* t -= other (the setter has cleared grad; the method clears it again)
ISub(t, other) ==
    /\ CanBroadcast(heap[t].data.shape, other.shape)
    /\ Replace(t, BSub(heap[t].data, other))

\* t.zero_grad(); a call on a tensor whose grad is already the zero array of
\* its data changes nothing and is a stuttering step
ZeroGrad(t) ==
    /\ MayCall
    /\ calls.zero_grad < MaxZeroGrad
    /\ zero_grad(heap[t]) # heap[t]
    /\ heap' = [heap EXCEPT ![t] = zero_grad(@)]
    /\ calls' = [calls EXCEPT !.zero_grad = @ + 1, !.total = @ + 1]
    /\ ForgetBackward
    /\ UNCHANGED <<built, rd>>

\* --------------------------------------------------------------- backward
\* an exception leaves backward, and every caller's frame with it
Raise(exc, line) ==
    /\ stack' = <<>>
    /\ outcome' = [exc |-> exc, line |-> line]
    /\ UNCHANGED <<heap, visits>>

\* mutant: the incoming gradient overwrites the accumulated one
AccumulateOverwrite(g, grad) == SetGradData(g, grad)

\* self.grad.data = self.grad.data + grad.data
Accumulate(g, grad) == SetGradData(g, BAdd(g.data, grad))

RECURSIVE Unwind(_, _)
\* The calls whose loop (line 107) has no dependency left return, innermost
\* first: what stays is the stack of the calls that still have one to visit.
Unwind(h, st) ==
    IF st = <<>> THEN st
    ELSE IF st[Len(st)].k > Len(h[st[Len(st)].self].depends_on)
    THEN Unwind(h, SubSeq(st, 1, Len(st) - 1))
    ELSE st

\* Lines 97-105 of backward run on tensor t: the assert, the implicit seed, the
\* accumulation; outer is the callers' stack.  On success the frame of this
\* call is pushed with its loop at the first dependency, and the calls that
\* have nothing left to visit return.
Enter(t, hasGrad, given, outer) ==
    LET grad == IF hasGrad THEN given ELSE Scalar(1)
        rest == Unwind(heap, Append(outer, [self |-> t, grad |-> grad, k |-> 1]))
    IN  IF ~heap[t].requires_grad
        THEN Raise("AssertionError", 97) /\ last' = NoAttempt
        ELSE IF ~hasGrad /\ heap[t].shape # <<>>
        THEN Raise("RuntimeError", 103) /\ last' = NoAttempt
        ELSE /\ last' = [t |-> t, absent |-> ~heap[t].grad.present, grad |-> grad]
             /\ IF ~heap[t].grad.present
                THEN Raise("AttributeError", 105)
                ELSE IF ~CanBroadcast(heap[t].grad.data.shape, grad.shape)
                THEN Raise("ValueError", 105)
                ELSE /\ heap' = [heap EXCEPT ![t].grad = Accumulate(@, grad)]
                     /\ stack' = rest
                     /\ visits' = Append(visits, t)
                     /\ outcome' = [exc |-> IF rest = <<>> THEN "ok" ELSE "running",
                                    line |-> 0]

\* t.backward(grad) called by the client; hasGrad is whether grad is given, and
\* a given grad is shaped like t's data.  A call that raises before it has
\* changed anything is not counted against MaxBackward.
BackwardCall(t, hasGrad, v) ==
    /\ MayCall
    /\ calls.backward < MaxBackward
    /\ call' = [root |-> t, hasSeed |-> hasGrad, seed |-> Full(heap[t].data.shape, v),
                pre |-> heap]
    /\ Enter(t, hasGrad, Full(heap[t].data.shape, v), <<>>)
    /\ calls' = IF heap' = heap THEN calls
                ELSE [calls EXCEPT !.backward = @ + 1, !.total = @ + 1]
    /\ UNCHANGED <<built, rd>>

\* One turn of the loop of the innermost running backward (lines 107-109): the
\* next dependency's grad_fn is applied and backward entered on its tensor.
BackwardStep ==
    /\ ~Idle
    /\ LET top == stack[Len(stack)]
           dependency == heap[top.self].depends_on[top.k]
           outer == [stack EXCEPT ![Len(stack)].k = @ + 1]
       IN  IF ~dependency.isDep
           THEN Raise("AttributeError", 108) /\ last' = NoAttempt
           ELSE IF ~GradFnOk(heap, dependency, top.grad)
           THEN Raise("ValueError", 108) /\ last' = NoAttempt
           ELSE Enter(dependency.tensor, TRUE, GradFn(heap, dependency, top.grad), outer)
    /\ UNCHANGED <<built, call, calls, rd>>

Next ==
    \/ \E d \in LeafData, r \in BOOLEAN : NewTensor(d, r)
    \/ \E t1, t2 \in Ids : Add(t1, t2)
    \/ \E t1, t2 \in Ids : Multiply(t1, t2)
    \/ \E t1, t2 \in Ids : Matmul(t1, t2)
    \/ \E t1, t2 \in Ids : Sub(t1, t2)
    \/ \E t \in Ids : Neg(t)
    \/ \E t \in Ids : Sum(t)
    \/ \E t \in Ids, i \in SliceIdx : Slice(t, i)
    \/ \E t \in Ids, o \in InplaceOperands \cup BroadcastingOperands : IAdd(t, o)
    \/ \E t \in Ids, o \in InplaceOperands : IMul(t, o)
    \/ \E t \in Ids, o \in InplaceOperands : ISub(t, o)
    \/ \E t \in Ids : ZeroGrad(t)
    \/ \E t \in Ids, hasGrad \in BOOLEAN, v \in SeedValues : BackwardCall(t, hasGrad, v)
    \/ BackwardStep

Spec == Init /\ [][Next]_vars


\* ------------------------------------------- the gradient-reduction harness
\* The operand shapes: every shape of rank at most MaxRank with sizes 1..MaxDim.
ShapeSet == UNION {[1..r -> 1..MaxDim] : r \in 0..MaxRank}

\* Two differentiable leaves of broadcast-compatible shapes, about to be
\* combined by op; the machine above stays in its initial state.
InitR ==
    /\ heap = <<>>
    /\ built = <<>>
    /\ stack = <<>>
    /\ outcome = NoOutcome
    /\ visits = <<>>
    /\ call = NoCall
    /\ last = NoAttempt
    /\ calls = [inplace |-> 0, zero_grad |-> 0, backward |-> 0, total |-> 0]
    /\ \E s1, s2 \in ShapeSet, op \in {"add", "multiply"} :
          /\ CanBroadcast(s1, s2)
          /\ rd = [phase |-> "operands", op |-> op,
                   h |-> <<Tensor(Full(s1, 2), TRUE, <<>>), Tensor(Full(s2, 3), TRUE, <<>>)>>]

\* c = a + b or c = a * b
RForward ==
    /\ rd.phase = "operands"
    /\ rd' = [rd EXCEPT !.phase = "forward",
                        !.h = Append(@, IF rd.op = "add" THEN _add(@, 1, 2)
                                        ELSE _multiply(@, 1, 2))]
    /\ UNCHANGED <<heap, built, stack, outcome, visits, call, last, calls>>

\* both dependencies' grad_fn applied to an upstream gradient of ones shaped
\* like c
RReduce ==
    /\ rd.phase = "forward"
    /\ LET upstream == ones_like(rd.h[3].data)
           deps == rd.h[3].depends_on
       IN  rd' = [phase |-> "reduced", op |-> rd.op, h |-> rd.h,
                  ok |-> \A k \in 1..2 : GradFnOk(rd.h, deps[k], upstream),
                  out |-> [k \in 1..2 |->
                             IF GradFnOk(rd.h, deps[k], upstream)
                             THEN GradFn(rd.h, deps[k], upstream)
                             ELSE Scalar(0)]]
    /\ UNCHANGED <<heap, built, stack, outcome, visits, call, last, calls>>

NextR == RForward \/ RReduce

SpecReduce == InitR /\ [][NextR]_vars

\* ------------------------------------------------------------ the graph
Range(f) == {f[k] : k \in DOMAIN f}

RECURSIVE Reachable(_, _)
\* the tensors backward started on t can reach along dependency edges
Reachable(h, t) ==
    {t} \cup UNION {Reachable(h, d.tensor) : d \in Range(h[t].depends_on)}

\* the closures on the edges of the graph under t
EdgeFns(h, t) == UNION {{d.fn : d \in Range(h[u].depends_on)} : u \in Reachable(h, t)}

RECURSIVE NPaths(_, _, _)
\* the number of distinct dependency-edge paths from t to x
NPaths(h, t, x) ==
    (IF t = x THEN 1 ELSE 0)
    + SumTo([k \in 1..Len(h[t].depends_on) |-> NPaths(h, h[t].depends_on[k].tensor, x)], Len(h[t].depends_on))

RECURSIVE Preorder(_, _)
RECURSIVE PreorderFrom(_, _, _)
\* t, then the traversal of its first dependency, then of the next, ...
Preorder(h, t) == <<t>> \o PreorderFrom(h, t, 1)
PreorderFrom(h, t, k) ==
    IF k > Len(h[t].depends_on) THEN <<>>
    ELSE Preorder(h, h[t].depends_on[k].tensor) \o PreorderFrom(h, t, k + 1)

RECURSIVE PathContribs(_, _, _, _)
RECURSIVE PathContribsFrom(_, _, _, _, _)
\* the gradients that arrive at x, one per path, when g arrives at t: each
\* edge's local gradient function applied along the path
PathContribs(h, t, g, x) ==
    (IF t = x THEN <<g>> ELSE <<>>) \o PathContribsFrom(h, t, g, x, 1)
PathContribsFrom(h, t, g, x, k) ==
    IF k > Len(h[t].depends_on) THEN <<>>
    ELSE PathContribs(h, h[t].depends_on[k].tensor, GradFn(h, h[t].depends_on[k], g), x)
         \o PathContribsFrom(h, t, g, x, k + 1)

RECURSIVE AddAll(_, _)
\* a + c[1] + ... + c[n]
AddAll(a, c) == IF c = <<>> THEN a ELSE AddAll(BAdd(a, Head(c)), Tail(c))

Count(seq, x) == Cardinality({k \in DOMAIN seq : seq[k] = x})

\* A top-level backward call has just ended (returned or raised).
CallEnded == call.root # 0 /\ Idle
\* the gradient the call started with
SeedOf(c) == IF c.hasSeed THEN c.seed ELSE Scalar(1)
\* the call was made on a differentiable tensor with a seed, given or implicit
SeededCall ==
    /\ call.pre[call.root].requires_grad
    /\ call.hasSeed \/ call.pre[call.root].shape = <<>>
\* every gradient of the graph under t is present and zero
Zeroed(h, t) ==
    \A u \in Reachable(h, t) :
        h[u].grad.present /\ h[u].grad.data = zeros_like(h[u].data)
\* the differentiable leaves that more than one path from t reaches
SharedLeaves(h, t) ==
    {x \in Reachable(h, t) : h[x].depends_on = <<>> /\ NPaths(h, t, x) >= 2}


\* --------------------------------------------------------------- claims

\* C1: when backward is called on a root whose graph uses only add, negate and
\* multiply, with a seed and with every gradient of the graph zero, the call
\* returns and every leaf reached by two or more paths holds the sum of the
\* gradients arriving along all of its paths, not the gradient of one path.
C1_PathSum ==
    (CallEnded /\ SeededCall
        /\ Zeroed(call.pre, call.root)
        /\ EdgeFns(call.pre, call.root) \subseteq {"add1", "add2", "mul1", "mul2", "neg"})
    => /\ outcome.exc = "ok"
       /\ \A x \in SharedLeaves(call.pre, call.root) :
             heap[x].grad.data =
                 AddAll(call.pre[x].grad.data,
                        PathContribs(call.pre, call.root, SeedOf(call), x))

\* C1 witness: such a call has returned on a graph where the shared leaf is
\* reached both directly or through a derived tensor, and its grad is not zero.
C1_Witness ==
    /\ CallEnded /\ SeededCall
    /\ Zeroed(call.pre, call.root)
    /\ EdgeFns(call.pre, call.root) \subseteq {"add1", "add2", "mul1", "mul2", "neg"}
    /\ outcome.exc = "ok"
    /\ \E x \in SharedLeaves(call.pre, call.root) :
          /\ heap[x].grad.data # zeros_like(heap[x].data)
          /\ \E d \in Range(heap[call.root].depends_on) : d.tensor # x

\* C2: backward() without a seed on a differentiable tensor raises the
\* RuntimeError of line 103 and changes nothing when the tensor's shape is
\* not (), and returns, having added the implicit seed 1 to the tensor's grad,
\* when the shape is ().
C2_NoSeedBackward ==
    (CallEnded /\ ~call.hasSeed /\ call.pre[call.root].requires_grad)
    => IF call.pre[call.root].shape # <<>>
       THEN outcome.exc = "RuntimeError" /\ heap = call.pre
       ELSE /\ outcome.exc = "ok"
            /\ heap[call.root].grad.data =
                  BAdd(call.pre[call.root].grad.data, Scalar(1))

\* The half of C2 the code keeps: without a seed and with a shape that is not
\* (), the call raises the RuntimeError of line 103 and no tensor has changed.
MissingGradientRaised ==
    (CallEnded /\ ~call.hasSeed /\ call.pre[call.root].requires_grad
        /\ call.pre[call.root].shape # <<>>)
    => outcome = [exc |-> "RuntimeError", line |-> 103] /\ heap = call.pre

\* C3: after c.backward(seed) has returned for c = multiply(a, b), an operand
\* that is a differentiable leaf with unchanged data, not reachable through the
\* other operand, has gained reduce(seed x the other operand's data as it was
\* when c was constructed, its shape).
GainedFromSnapshot(c, x, otherThen) ==
    heap[x].grad.data =
        BAdd(call.pre[x].grad.data,
             ReduceGrad(BMul(SeedOf(call), otherThen),
                        ndim(call.pre[x].data), call.pre[x].shape))

MulOperand(c, x, other) ==
    /\ x # other
    /\ call.pre[x].requires_grad
    /\ call.pre[x].depends_on = <<>>
    /\ call.pre[x].grad.present
    /\ x \notin Reachable(call.pre, other)

C3_CapturedData ==
    (CallEnded /\ SeededCall /\ outcome.exc = "ok"
        /\ built[call.root].op = "multiply"
        /\ call.pre[call.root].depends_on # <<>>)
    => LET c == call.root
           a == built[c].a
           b == built[c].b
       IN  /\ (MulOperand(c, a, b) /\ call.pre[a].data = built[c].adata)
                 => GainedFromSnapshot(c, a, built[c].bdata)
           /\ (MulOperand(c, b, a) /\ call.pre[b].data = built[c].bdata)
                 => GainedFromSnapshot(c, b, built[c].adata)

\* the array shaped s that holds g at the positions t[idxs] selects and 0 elsewhere
Scatter(g, s, idxs) ==
    [shape |-> s,
     at |-> [i \in Idx(s) |->
                IF i[1] # 1 THEN 0
                ELSE IF idxs = "0" THEN g.at[Tail(i)] ELSE g.at[<<1>> \o Tail(i)]]]

\* C4: s.backward(seed) for s = slice(a, idxs), a differentiable with a grad,
\* returns and has added to a.grad the array shaped like a's data that holds
\* the seed at the selected positions and zero elsewhere.
C4_SliceBackward ==
    (CallEnded /\ call.hasSeed
        /\ built[call.root].op = "slice"
        /\ call.pre[call.root].requires_grad
        /\ call.pre[call.root].grad.present
        /\ call.pre[built[call.root].a].grad.present)
    => LET a == built[call.root].a
       IN  /\ outcome.exc = "ok"
           /\ heap[a].grad.data =
                 BAdd(call.pre[a].grad.data,
                      Scatter(call.seed, call.pre[a].data.shape, built[call.root].idxs))

\* C5: an accumulation (line 105) that finds the tensor's grad absent
\* allocates it and adds the incoming gradient.
C5_LazyGrad ==
    (last.t # 0 /\ last.absent)
    => /\ heap[last.t].grad.present
       /\ heap[last.t].grad.data = BAdd(zeros_like(heap[last.t].data), last.grad)

\* C6: a tensor whose requires_grad is false has no grad.
C6_NoGradWithoutRequiresGrad ==
    \A t \in Ids : ~heap[t].requires_grad => ~heap[t].grad.present

\* C7: every tensor's shape is the shape of its current data.
C7_ShapeIsDataShape ==
    \A t \in Ids : heap[t].shape = heap[t].data.shape

\* C8: for broadcast-compatible operand shapes, the gradient functions of add
\* and multiply return, for an upstream gradient shaped like the result, an
\* array of exactly the operand's shape.
C8_ReduceShape ==
    rd.phase = "reduced"
    => /\ rd.ok
       /\ \A k \in 1..2 : rd.out[k].shape = rd.h[k].data.shape

\* C8 witness: the reduction has run for a (1,3) operand combined with a (3,)
\* operand, one keeping its size-1 axis and the other losing the added axis.
C8_Witness ==
    /\ rd.phase = "reduced"
    /\ rd.h[1].data.shape = <<1, 3>>
    /\ rd.h[2].data.shape = <<3>>
    /\ rd.out[1].shape = <<1, 3>>
    /\ rd.out[2].shape = <<3>>

\* C9: a call that creates tensors leaves every tensor that existed before it
\* as it was (data, shape, requires_grad, grad and depends_on).
C9_OperandsUnchanged ==
    [][Len(heap') > Len(heap) => \A t \in 1..Len(heap) : heap'[t] = heap[t]]_vars

\* C9 witness: a derived tensor was constructed after a backward call from an
\* operand that holds a grad that is not zero.
C9_Witness ==
    \E t \in Ids :
        /\ built[t].op # "leaf"
        /\ built[t].after >= 1
        /\ heap[built[t].a].grad.present
        /\ heap[built[t].a].grad.data # zeros_like(heap[built[t].a].data)

\* C10: a backward call with a seed on a differentiable derived root that has a
\* grad and whose graph uses add, negate, multiply, sum and matmul of matrices
\* returns, having visited
\* the tensors in depth-first order of the dependency edges, each tensor once
\* per path from the root to it.
C10_Traversal ==
    (CallEnded /\ SeededCall
        /\ call.pre[call.root].depends_on # <<>>
        /\ call.pre[call.root].grad.present
        /\ EdgeFns(call.pre, call.root)
              \subseteq {"add1", "add2", "mul1", "mul2", "neg", "sum", "mm1", "mm2"}
        /\ \A u \in Reachable(call.pre, call.root) :
              built[u].op = "matmul"
                 => ndim(call.pre[built[u].a].data) = 2 /\ ndim(call.pre[built[u].b].data) = 2)
    => /\ outcome.exc = "ok"
       /\ visits = Preorder(call.pre, call.root)
       /\ \A u \in Ids : Count(visits, u) = NPaths(call.pre, call.root, u)

\* What the code keeps of C10: when, besides, every tensor of the graph has a
\* grad, the call returns after the depth-first, once-per-path traversal.
TraversalWithGradsPresent ==
    (CallEnded /\ SeededCall
        /\ (\A w \in Reachable(call.pre, call.root) : call.pre[w].grad.present)
        /\ EdgeFns(call.pre, call.root)
              \subseteq {"add1", "add2", "mul1", "mul2", "neg", "sum", "mm1", "mm2"}
        /\ \A u \in Reachable(call.pre, call.root) :
              built[u].op = "matmul"
                 => ndim(call.pre[built[u].a].data) = 2 /\ ndim(call.pre[built[u].b].data) = 2)
    => /\ outcome.exc = "ok"
       /\ visits = Preorder(call.pre, call.root)
       /\ \A u \in Ids : Count(visits, u) = NPaths(call.pre, call.root, u)

====
